---- MODULE Spec2Model ----
(***************************************************************************)
(* Subscription lifecycle of src/engine2/requests/subscription.ts:         *)
(* Subscription (start, onEvent, onEose, close), subscribe and the         *)
(* subscribePersistent loop, driven by a nondeterministic transport, a     *)
(* timer queue and a wall clock.                                           *)
(***************************************************************************)
EXTENDS Integers, Sequences, FiniteSets, TLC

(* ---------------------------- bounds ----------------------------------- *)
MaxClock == 2
MaxEpochs == 2
\* callbacks still in flight when unsubscribe() is called
MaxLate == 1

(* ---------------------------- values ----------------------------------- *)
\* `closed: number = null`; null and 0 are both falsy in `!this.closed`.
Null == 0
\* an absent `since` / `timeout` (undefined is falsy like 0)
Undefined == 0

Ids == {"A", "B"}
Kinds == {1, 42}
Sigs == {"valid", "invalid", "throws"}
CreatedAts == {1, MaxClock}

\* events as the transport delivers them (before onEvent touches them):
\* the variants of id A, genuine or forged, old or recent, and a genuine B
\* without content
Events ==
    {e \in [id : {"A"}, kind : Kinds, created_at : CreatedAts, sig : Sigs,
             content : {"m"}] : e.kind = 42 => e.created_at = 1}
    \cup [id : {"B"}, kind : {42}, created_at : {MaxClock}, sig : {"valid"},
          content : {"undefined"}]

\* the narrower transport the persistent loop is explored with
LoopEvents == {e \in Events : e.id = "A" /\ e.sig = "valid"}

\* relay urls as the caller writes them; "r1/" is another spelling of "r1"
RawUrls == {"r1", "r1/", "r2", "local"}
RelayLists == {<<"r1", "r2">>, <<"r1", "r1/">>, <<"r2", "local">>}
Timeouts == {Undefined, 1}
\* `shouldProject !== false`: true takes the branch of undefined
ShouldProjects == {"undefined", "false"}
FilterLists == {<<[kinds |-> {42}, since |-> Undefined]>>,
                <<[kinds |-> {42}, since |-> Undefined],
                  [kinds |-> {1}, since |-> 2]>>}
\* the options the persistent loop is explored with
LoopOpts == [relays : {<<"r1">>, <<"r1", "r1/">>}, filters : FilterLists,
             timeout : Timeouts \ {Undefined},
             shouldProject : ShouldProjects]
CallbackSets == {{"event", "eose", "close"}}

VARIABLES subs, clock, pushed, opts, callbacks, persistent, pc

\* the channels store, the signing capability, the events dispatched to the
\* projection handlers, the handlers suspended in decryptAsUser, and the
\* number of decryptAsUser calls
VARIABLES channels, canSign, applied, tasks, decrypts

subVars == <<subs, clock, pushed, opts, callbacks, persistent, pc>>

projVars == <<channels, canSign, applied, tasks, decrypts>>

vars == <<subs, clock, pushed, opts, callbacks, persistent, pc,
          channels, canSign, applied, tasks, decrypts>>

(* ------------------------- collaborators -------------------------------- *)
normalizeRelayUrl(url) == IF url = "r1/" THEN "r1" ELSE url

\* resolves the endpoints to query, deduplicating equivalent urls
getUrls(relays) == {normalizeRelayUrl(relays[k]) : k \in DOMAIN relays}

\* a relay whose attribution is meaningful
isShareableRelay(url) == url # "local"

\* a throw taken for success
verifySignature_Lenient(e) == e.sig # "invalid"

\* tryFunc(() => verifySignature(event)): a throw becomes undefined (falsy)
verifySignature(e) == e.sig = "valid"

\* the `since` bound ignored
matchFilter_NoSince(f, e) == e.kind \in f.kinds

matchFilter(f, e) ==
    /\ e.kind \in f.kinds
    /\ ~(f.since # Undefined /\ e.created_at < f.since)

matchFilters(filters, e) == \E k \in DOMAIN filters : matchFilter(filters[k], e)

includes(seq, x) == \E k \in DOMAIN seq : seq[k] = x

\* Date.now() and now() read the same wall clock
DateNow == clock

now == clock

(* --------------------------- Subscription ------------------------------- *)
\* start() that never arms the timer
NewSubscription_NoTimer(o, cbs, t) ==
    [opts |-> o, opened |-> t, closed |-> Null,
     result |-> [resolved |-> FALSE, value |-> <<>>], events |-> <<>>,
     seen |-> [x \in {} |-> <<>>], eose |-> {}, urls |-> getUrls(o.relays),
     requested |-> o.filters, timer |-> "none", listeners |-> cbs,
     verified |-> <<>>, warned |-> <<>>, emitted |-> <<>>, heard |-> <<>>,
     eoseHeard |-> {}, closeEmits |-> <<>>, closeHeard |-> <<>>, resolves |-> 0,
     unsubscribes |-> 0, cleanups |-> 0, late |-> 0, sub |-> "handle",
     calls |-> <<>>]

\* field initialisers, constructor -> start(), and the listeners that
\* subscribe() attaches right after construction
NewSubscription(o, cbs, t) ==
    [opts |-> o,
     opened |-> t,
     closed |-> Null,
     result |-> [resolved |-> FALSE, value |-> <<>>],
     events |-> <<>>,
     seen |-> [x \in {} |-> <<>>],
     eose |-> {},
     urls |-> getUrls(o.relays),
     requested |-> o.filters,
     timer |-> IF o.timeout # Undefined THEN "armed" ELSE "none",
     listeners |-> cbs,
     verified |-> <<>>,
     warned |-> <<>>,
     emitted |-> <<>>,
     heard |-> <<>>,
     eoseHeard |-> {},
     closeEmits |-> <<>>,
     closeHeard |-> <<>>,
     resolves |-> 0,
     unsubscribes |-> 0,
     cleanups |-> 0,
     late |-> 0,
     sub |-> "handle",
     calls |-> <<>>]

\* close() without the `!this.closed` guard
close_NoGuard(s, t) ==
    [s EXCEPT !.closed = t,
              !.result = IF @.resolved THEN @
                         ELSE [resolved |-> TRUE, value |-> s.events],
              !.resolves = @ + 1,
              !.unsubscribes = @ + 1,
              !.cleanups = @ + 1,
              !.closeEmits = Append(@, s.events),
              !.closeHeard = IF "close" \in s.listeners
                             THEN Append(@, s.events) ELSE @,
              !.listeners = {}]

\* close() that forgets executor.target.cleanup()
close_NoCleanup(s, t) ==
    IF s.closed = Null
    THEN [s EXCEPT !.closed = t,
                   !.result = [resolved |-> TRUE, value |-> s.events],
                   !.resolves = @ + 1,
                   !.unsubscribes = @ + 1,
                   !.closeEmits = Append(@, s.events),
                   !.closeHeard = IF "close" \in s.listeners
                                  THEN Append(@, s.events) ELSE @,
                   !.listeners = {}]
    ELSE s

\* Subscription.close
close(s, t) ==
    IF s.closed = Null
    THEN [s EXCEPT !.closed = t,
                   !.result = IF @.resolved THEN @
                              ELSE [resolved |-> TRUE, value |-> s.events],
                   !.resolves = @ + 1,
                   !.unsubscribes = @ + 1,
                   !.cleanups = @ + 1,
                   !.closeEmits = Append(@, s.events),
                   !.closeHeard = IF "close" \in s.listeners
                                  THEN Append(@, s.events) ELSE @,
                   !.listeners = {}]
    ELSE s

\* the event object after `event.content = event.content || ""`
Normalise(e) == [e EXCEPT !.content = IF @ = "undefined" THEN "" ELSE @]

\* a later relay replacing the attribution instead of being appended
onEventSeen_Replace(s, url, e) ==
    IF e.id \in DOMAIN s.seen
    THEN IF ~includes(s.seen[e.id], url) /\ isShareableRelay(url)
         THEN [s EXCEPT !.seen[e.id] = <<url>>]
         ELSE s
    ELSE [s EXCEPT !.seen = [x \in DOMAIN s.seen \cup {e.id} |->
                               IF x = e.id
                               THEN IF isShareableRelay(url) THEN <<url>> ELSE <<>>
                               ELSE s.seen[x]],
                   !.verified = Append(@, e.id)]

\* Subscription.onEvent up to the early returns: the subscription after the
\* delivery, and whether the event went on to projection and emission
onEventSeen(s, url, e) ==
    IF e.id \in DOMAIN s.seen
    THEN IF ~includes(s.seen[e.id], url) /\ isShareableRelay(url)
         THEN [s EXCEPT !.seen[e.id] = Append(@, url)]
         ELSE s
    ELSE [s EXCEPT !.seen = [x \in DOMAIN s.seen \cup {e.id} |->
                               IF x = e.id
                               THEN IF isShareableRelay(url) THEN <<url>> ELSE <<>>
                               ELSE s.seen[x]],
                   !.verified = Append(@, e.id)]

\* onEvent without the early return for a seen id
accepted_NoDedup(s, e) ==
    /\ verifySignature(e)
    /\ matchFilters(s.opts.filters, e)

accepted(s, e) ==
    /\ e.id \notin DOMAIN s.seen
    /\ verifySignature(e)
    /\ matchFilters(s.opts.filters, e)

\* projection only when asked for: `if (this.opts.shouldProject)`
shouldPush_OptIn(s) == s.opts.shouldProject = "true"

shouldPush(s) == s.opts.shouldProject # "false"

\* the calls onEvent makes for an accepted event, in program order
callsFor(s, e) ==
    IF shouldPush(s) THEN <<[op |-> "push", id |-> e.id], [op |-> "emit", id |-> e.id]>>
    ELSE <<[op |-> "emit", id |-> e.id]>>

onEvent(s, url, e) ==
    IF accepted(s, e)
    THEN [onEventSeen(s, url, e) EXCEPT
             !.calls = @ \o callsFor(s, e),
             !.emitted = Append(@, Normalise(e)),
             !.heard = IF "event" \in s.listeners
                       THEN Append(@, Normalise(e)) ELSE @]
    ELSE IF e.id \in DOMAIN s.seen
    THEN onEventSeen(s, url, e)
    ELSE [onEventSeen(s, url, e) EXCEPT
             !.warned = Append(@, [msg |-> IF ~verifySignature(e)
                                           THEN "Signature verification failed"
                                           ELSE "Event failed to match filter",
                                   id |-> e.id, sig |-> e.sig])]

\* all-EOSE closing a subscription that has no timeout
onEose_AlwaysCloses(s, url, t) ==
    LET s1 == [s EXCEPT !.eose = @ \cup {url},
                        !.eoseHeard = IF "eose" \in s.listeners
                                      THEN @ \cup {url} ELSE @]
    IN IF Cardinality(s1.eose) = Len(s.opts.relays)
       THEN close(s1, t)
       ELSE s1

\* Subscription.onEose
onEose(s, url, t) ==
    LET s1 == [s EXCEPT !.eose = @ \cup {url},
                        !.eoseHeard = IF "eose" \in s.listeners
                                      THEN @ \cup {url} ELSE @]
    IN IF s.opts.timeout # Undefined /\ Cardinality(s1.eose) = Len(s.opts.relays)
       THEN close(s1, t)
       ELSE s1

(* ----------------------------- actions ---------------------------------- *)
\* no channel known yet, nothing dispatched to the projection handlers
ProjIdle ==
    /\ channels = [x \in {} |-> 0]
    /\ canSign = FALSE
    /\ applied = <<>>
    /\ tasks = <<>>
    /\ decrypts = 0

\* subscribe(opts): one Subscription whose handle the caller holds
Init ==
    /\ clock = 1
    /\ pushed = <<>>
    /\ persistent = FALSE
    /\ callbacks \in CallbackSets
    /\ opts \in [relays : RelayLists, filters : FilterLists,
                 timeout : Timeouts, shouldProject : ShouldProjects]
    /\ subs = <<NewSubscription(opts, callbacks, clock)>>
    /\ ProjIdle
    /\ pc = "none"

\* subscribePersistent(opts): the first epoch, the loop awaiting its result
InitPersistent ==
    /\ clock = 1
    /\ pushed = <<>>
    /\ persistent = TRUE
    /\ callbacks \in CallbackSets
    /\ opts \in LoopOpts
    /\ subs = <<NewSubscription(opts, callbacks, clock)>>
    /\ ProjIdle
    /\ pc = "await"

Transport == IF persistent THEN LoopEvents ELSE Events

\* the continuation of `await subscribe(opts).result` is a microtask: it
\* runs before any further timer or transport callback
MicrotaskPending == pc = "resume" /\ Len(subs) < MaxEpochs

\* the loop going on without awaiting the result
Resumes_NoAwait(i) ==
    IF pc = "await" /\ i = Len(subs) THEN "resume" ELSE pc

\* the awaited result got resolved by this step
Resumes(i) ==
    IF pc = "await" /\ i = Len(subs) /\ subs'[i].result.resolved THEN "resume" ELSE pc

\* the transport calls back; after unsubscribe() only what was in flight
\* (the persistent loop is explored with a transport that has nothing in
\* flight by then)
Delivers(i, url) ==
    /\ ~MicrotaskPending
    /\ url \in subs[i].urls
    /\ subs[i].unsubscribes > 0 => subs[i].late < MaxLate /\ ~persistent

Late(s) == IF s.unsubscribes > 0 THEN [s EXCEPT !.late = @ + 1] ELSE s

OnEvent(i, url, e) ==
    /\ Delivers(i, url)
    /\ subs' = [subs EXCEPT ![i] = onEvent(Late(@), url, e)]
    /\ pushed' = IF accepted(subs[i], e) /\ shouldPush(subs[i])
                 THEN Append(pushed, [sub |-> i, event |-> Normalise(e)])
                 ELSE pushed
    /\ UNCHANGED <<clock, opts, callbacks, persistent, pc>>
    /\ UNCHANGED projVars

OnEose(i, url) ==
    /\ Delivers(i, url)
    /\ subs' = [subs EXCEPT ![i] = onEose(Late(@), url, DateNow)]
    /\ pc' = Resumes(i)
    /\ UNCHANGED <<clock, pushed, opts, callbacks, persistent>>
    /\ UNCHANGED projVars

\* setTimeout(this.close, timeout) coming due
TimerFire(i) ==
    /\ ~MicrotaskPending
    /\ subs[i].timer = "armed"
    /\ clock >= subs[i].opened + subs[i].opts.timeout
    /\ subs' = [subs EXCEPT ![i] = [close(@, DateNow) EXCEPT !.timer = "fired"]]
    /\ pc' = Resumes(i)
    /\ UNCHANGED <<clock, pushed, opts, callbacks, persistent>>
    /\ UNCHANGED projVars

\* the holder of the handle returned by subscribe() calls close()
Close(i) ==
    /\ ~MicrotaskPending
    /\ subs' = [subs EXCEPT ![i] = close(@, DateNow)]
    /\ UNCHANGED <<clock, pushed, opts, callbacks, persistent, pc>>
    /\ UNCHANGED projVars

TimerDue(i) == clock >= subs[i].opened + subs[i].opts.timeout

Tick ==
    /\ \/ clock < MaxClock
       \/ \E i \in DOMAIN subs : subs[i].timer = "armed" /\ ~TimerDue(i)
    /\ clock' = clock + 1
    /\ UNCHANGED <<subs, pushed, opts, callbacks, persistent, pc>>
    /\ UNCHANGED projVars

\* the updated options dropped: the next epoch reuses the old filters
advance_Unchanged(o, t) == o

\* subscribePersistent: the loop body after the await
advance(o, t) ==
    [o EXCEPT !.filters = [k \in DOMAIN o.filters |-> [o.filters[k] EXCEPT !.since = t]]]

Reopen ==
    /\ MicrotaskPending
    /\ opts' = advance(opts, now)
    /\ subs' = Append(subs, NewSubscription(opts', callbacks, DateNow))
    /\ pc' = "await"
    /\ UNCHANGED <<clock, pushed, callbacks, persistent>>
    /\ UNCHANGED projVars

Next ==
    \/ \E i \in DOMAIN subs, url \in RawUrls, e \in Transport : OnEvent(i, url, e)
    \/ \E i \in DOMAIN subs, url \in RawUrls : OnEose(i, url)
    \/ \E i \in DOMAIN subs : TimerFire(i)
    \/ \E i \in DOMAIN subs : Close(i)
    \/ Tick

NextPersistent ==
    \/ \E i \in DOMAIN subs, url \in RawUrls, e \in Transport : OnEvent(i, url, e)
    \/ \E i \in DOMAIN subs, url \in RawUrls : OnEose(i, url)
    \/ \E i \in DOMAIN subs : TimerFire(i)
    \/ Tick
    \/ Reopen

Spec == Init /\ [][Next]_vars

\* subscribe(opts) with an empty filter list
InitOpen ==
    /\ clock = 1
    /\ pushed = <<>>
    /\ persistent = FALSE
    /\ callbacks \in CallbackSets
    /\ opts \in [relays : {<<"r1", "r2">>}, filters : {<<>>},
                 timeout : Timeouts, shouldProject : ShouldProjects]
    /\ subs = <<NewSubscription(opts, callbacks, clock)>>
    /\ ProjIdle
    /\ pc = "none"

OpenSpec == InitOpen /\ [][Next]_vars

PersistentSpec == InitPersistent /\ [][NextPersistent]_vars

\* subscribe(opts) with a timeout configured
InitTimeout == Init /\ opts.timeout # Undefined

\* timers come due and fire; the clock does not stop while one is armed
FairSpec ==
    /\ InitTimeout
    /\ [][Next]_vars
    /\ WF_vars(Tick)
    /\ \A i \in 1..MaxEpochs : WF_vars(i \in DOMAIN subs /\ TimerFire(i))

(* ---------------------------- projections ------------------------------ *)
\* pushes to the projection registry explored in one behaviour
MaxDispatch == 3

\* the cut-off of the last_checked handler (2020-01-01 as a unix time)
MinLastChecked == 1577836800

\* Math.max of anything that is not a number
NaN == -1

NIP28_ROOMS_JOINED == "nip28/rooms_joined"

NIP28_LAST_CHECKED == "nip28/last_checked"

\* pluck("pubkey", keys.get()): the user's own keys
pubkeys == {"me"}

\* what decryptAsUser resolves to: an array of channel ids, an object of
\* key/value entries, or something else
NoPlain == [type |-> "none", ids |-> {}, entries |-> <<>>]

PlainArray(ids) == [type |-> "array", ids |-> ids, entries |-> <<>>]

PlainObject(entries) == [type |-> "object", ids |-> {}, entries |-> entries]

PlainString == [type |-> "string", ids |-> {}, entries |-> <<>>]

\* decryptAsUser rejects
PlainThrows == [type |-> "throws", ids |-> {}, entries |-> <<>>]

ProjEvent(id, kind, pubkey, created_at, e, relays, content, d, plain) ==
    [id |-> id, kind |-> kind, pubkey |-> pubkey, created_at |-> created_at,
     e |-> e, relays |-> relays, content |-> content, d |-> d, plain |-> plain]

Channel40 ==
    { ProjEvent("X", 40, "alice", 2, "", <<"r1">>, "{\"name\":\"chan\"}", "", NoPlain),
      ProjEvent("Y", 40, "bob", 2, "", <<"r1">>, "not json", "", NoPlain) }

Channel41 ==
    { ProjEvent("u1", 41, "alice", 3, "X", <<"r2">>, "{\"name\":\"renamed\"}", "", NoPlain),
      ProjEvent("u2", 41, "mallory", 3, "X", <<"r2">>, "{\"name\":\"hijack\"}", "", NoPlain),
      ProjEvent("u3", 41, "alice", 3, "", <<"r2">>, "{\"name\":\"untagged\"}", "", NoPlain),
      ProjEvent("u4", 41, "alice", 3, "X", <<"r2">>, "{}", "", NoPlain),
      ProjEvent("u5", 41, "alice", 1, "X", <<"r3">>, "{\"name\":\"old\"}", "", NoPlain),
      ProjEvent("u6", 41, "alice", 3, "Z", <<"r2">>, "{\"name\":\"nowhere\"}", "", NoPlain),
      ProjEvent("u7", 41, "alice", 3, "X", <<"r2">>, "not json", "", NoPlain) }

Channel42 ==
    { ProjEvent("m1", 42, "me", 1, "X", <<"r1">>, "hi", "", NoPlain),
      ProjEvent("m2", 42, "carol", 2, "X", <<"r2", "r1">>, "hello", "", NoPlain),
      ProjEvent("m3", 42, "me", 3, "X", <<"r2">>, "bye", "", NoPlain),
      ProjEvent("m4", 42, "carol", 1, "X", <<>>, "first", "", NoPlain),
      ProjEvent("m5", 42, "me", 2, "", <<"r1">>, "lost", "", NoPlain) }

AppData ==
    { ProjEvent("j1", 30078, "me", 1, "", <<>>, "cipher", NIP28_ROOMS_JOINED,
                PlainArray({"X"})),
      ProjEvent("j2", 30078, "me", 1, "", <<>>, "cipher", NIP28_ROOMS_JOINED,
                PlainString),
      ProjEvent("j3", 30078, "me", 1, "", <<>>, "cipher", NIP28_ROOMS_JOINED,
                PlainThrows),
      ProjEvent("j4", 30078, "me", 1, "", <<>>, "cipher", NIP28_ROOMS_JOINED,
                PlainArray({})),
      ProjEvent("l1", 30078, "me", 1, "", <<>>, "cipher", NIP28_LAST_CHECKED,
                PlainObject(<< <<"X", MinLastChecked + 1>>, <<"7", 7>> >>)),
      ProjEvent("l2", 30078, "me", 1, "", <<>>, "cipher", NIP28_LAST_CHECKED,
                PlainObject(<< <<"X", MinLastChecked + 2>> >>)),
      ProjEvent("l3", 30078, "me", 1, "", <<>>, "cipher", NIP28_LAST_CHECKED,
                PlainObject(<< <<"legacy/X", MinLastChecked + 3>> >>)) }

ProjEvents == Channel40 \cup Channel41 \cup Channel42 \cup AppData

EventOf(id) == CHOOSE e \in ProjEvents : e.id = id

\* tryJson(() => JSON.parse(content)): the parsed object's name, or nothing
\* when the content is not JSON or the object has no name
metaName(content) ==
    CASE content = "{\"name\":\"chan\"}" -> "chan"
      [] content = "{\"name\":\"renamed\"}" -> "renamed"
      [] content = "{\"name\":\"hijack\"}" -> "hijack"
      [] content = "{\"name\":\"untagged\"}" -> "untagged"
      [] content = "{\"name\":\"old\"}" -> "old"
      [] content = "{\"name\":\"nowhere\"}" -> "nowhere"
      [] OTHER -> ""

\* key.split("/")
split(key) ==
    CASE key = "legacy/X" -> <<"legacy", "X">>
      [] OTHER -> <<key>>

last(seq) == seq[Len(seq)]

RECURSIVE uniq(_)
\* ramda uniq: the first occurrence of each element, in order
uniq(seq) ==
    IF seq = <<>> THEN <<>>
    ELSE LET init == uniq(SubSeq(seq, 1, Len(seq) - 1))
             x == seq[Len(seq)]
         IN IF \E k \in DOMAIN init : init[k] = x THEN init
            ELSE Append(init, x)

MathMax(a, b) == IF a = NaN \/ b = NaN THEN NaN ELSE IF a >= b THEN a ELSE b

\* the fields of a channel that is not in the store: every read is undefined
NoChannel ==
    [type |-> "", meta |-> "", relays |-> <<>>, updated_at |-> 0,
     owner |-> "", joined |-> FALSE, last_checked |-> 0,
     messages |-> <<>>, last_sent |-> 0, last_received |-> 0]

\* channels.key(id).get()
get(ch, id) == IF id \in DOMAIN ch THEN ch[id] ELSE NoChannel

\* channels.key(id).set(cell)
set(ch, id, cell) ==
    [x \in DOMAIN ch \cup {id} |-> IF x = id THEN cell ELSE ch[x]]

\* updateKey(key, timestamp, {meta, relays}, modify): the fields are replaced
\* only by a newer timestamp; modify is applied to the result
updateKey(ch, id, timestamp, meta, relays, owner) ==
    LET record == get(ch, id)
        merged == IF timestamp > record.updated_at
                  THEN [record EXCEPT !.meta = meta, !.relays = relays,
                                      !.updated_at = timestamp]
                  ELSE record
    IN set(ch, id, IF owner = "" THEN merged
                   ELSE [merged EXCEPT !.owner = owner])

handler40(ch, e) ==
    LET meta == metaName(e.content)
    IN IF meta # ""
       THEN updateKey(ch, e.id, e.created_at, meta, e.relays, e.pubkey)
       ELSE ch

handler41_AnyAuthor(ch, e) ==
    LET meta == metaName(e.content)
    IN IF e.e = "" THEN ch
       ELSE IF meta # ""
            THEN updateKey(ch, e.e, e.created_at, meta, e.relays, "")
            ELSE ch

handler41(ch, e) ==
    LET channelId == e.e
        channel == get(ch, channelId)
        meta == metaName(e.content)
    IN IF channelId = "" THEN ch
       ELSE IF e.pubkey # channel.owner THEN ch
       ELSE IF meta # ""
            THEN updateKey(ch, channelId, e.created_at, meta, e.relays, "")
            ELSE ch


\* messages kept whole, without uniqBy
mergeMessages_NoUniq(e, messages) == <<e.id>> \o messages

\* uniqBy(prop("id"), [e].concat($channel?.messages || []))
mergeMessages(e, messages) == uniq(<<e.id>> \o messages)

\* the timestamp of the event just handled, without Math.max
stamp_LastWins(old, created_at) == created_at

\* Math.max(updates.last_sent || 0, e.created_at), and the same for
\* last_received
stamp(old, created_at) == MathMax(old, created_at)

handler42(ch, e) ==
    LET channelId == e.e
        channel == get(ch, channelId)
        updates == [channel EXCEPT
                        !.type = "nip28",
                        !.relays = uniq(e.relays \o channel.relays),
                        !.messages = mergeMessages(e, channel.messages)]
    IN IF channelId = "" THEN ch
       ELSE set(ch, channelId,
                IF e.pubkey \in pubkeys
                THEN [updates EXCEPT
                          !.last_sent = stamp(updates.last_sent, e.created_at)]
                ELSE [updates EXCEPT
                          !.last_received =
                              stamp(updates.last_received, e.created_at)])

\* the handler going on to decrypt whatever canSign says
decrypts30078_Unguarded(signing, e) ==
    e.d \in {NIP28_ROOMS_JOINED, NIP28_LAST_CHECKED}

\* the kind-30078 handler up to its await: whether it calls decryptAsUser
decrypts30078(signing, e) ==
    signing /\ e.d \in {NIP28_ROOMS_JOINED, NIP28_LAST_CHECKED}

\* channels joined when listed, never left
roomsJoined_JoinOnly(ch, channelIds) ==
    IF channelIds.type # "array" THEN ch
    ELSE [x \in DOMAIN ch |->
            IF ~ch[x].joined /\ x \in channelIds.ids
            THEN [ch[x] EXCEPT !.joined = TRUE]
            ELSE ch[x]]

\* rooms joined, after decryptAsUser resolved: every channel of the store
\* is joined exactly when the array lists it
roomsJoined(ch, channelIds) ==
    IF channelIds.type # "array" THEN ch
    ELSE [x \in DOMAIN ch |->
            IF ch[x].joined /\ x \notin channelIds.ids
            THEN [ch[x] EXCEPT !.joined = FALSE]
            ELSE IF ~ch[x].joined /\ x \in channelIds.ids
                 THEN [ch[x] EXCEPT !.joined = TRUE]
                 ELSE ch[x]]

\* payload[id]: undefined, hence NaN under Math.max, when id is not a key
lookup(entries, id) ==
    IF \E k \in DOMAIN entries : entries[k][1] = id
    THEN entries[CHOOSE k \in DOMAIN entries : entries[k][1] = id][2]
    ELSE NaN

RECURSIVE lastChecked_Overwrite(_, _, _)
\* the payload's value written over the cell's, without Math.max
lastChecked_Overwrite(ch, entries, k) ==
    IF k > Len(entries) THEN ch
    ELSE LET id == last(split(entries[k][1]))
             channel == get(ch, id)
             last_checked == lookup(entries, id)
         IN IF last_checked = NaN \/ last_checked < MinLastChecked
            THEN lastChecked_Overwrite(ch, entries, k + 1)
            ELSE lastChecked_Overwrite(
                     set(ch, id, [channel EXCEPT !.last_checked = last_checked]),
                     entries, k + 1)

RECURSIVE lastChecked(_, _, _)
\* last checked, after decryptAsUser resolved: the loop over
\* Object.keys(payload), from entry k on
lastChecked(ch, entries, k) ==
    IF k > Len(entries) THEN ch
    ELSE LET id == last(split(entries[k][1]))
             channel == get(ch, id)
             last_checked == MathMax(lookup(entries, id), channel.last_checked)
         IN IF last_checked = NaN \/ last_checked < MinLastChecked
            THEN lastChecked(ch, entries, k + 1)
            ELSE lastChecked(
                     set(ch, id, [channel EXCEPT !.last_checked = last_checked]),
                     entries, k + 1)

\* the kind-30078 handler after its await
resume30078(ch, e) ==
    IF e.d = NIP28_ROOMS_JOINED THEN roomsJoined(ch, e.plain)
    ELSE IF e.plain.type = "object" THEN lastChecked(ch, e.plain.entries, 1)
    ELSE ch

\* projections.push(e) for the kinds whose handlers run to completion
dispatch(ch, e) ==
    CASE e.kind = 40 -> handler40(ch, e)
      [] e.kind = 41 -> handler41(ch, e)
      [] e.kind = 42 -> handler42(ch, e)
      [] OTHER -> ch

\* no subscription is open: events reach the registry from elsewhere
SubIdle ==
    /\ subs = <<>>
    /\ clock = 1
    /\ pushed = <<>>
    /\ opts = [relays |-> <<>>, filters |-> <<>>, timeout |-> Undefined,
               shouldProject |-> "undefined"]
    /\ callbacks = {}
    /\ persistent = FALSE
    /\ pc = "none"

InitProj ==
    /\ SubIdle
    /\ channels = [x \in {} |-> 0]
    /\ canSign \in BOOLEAN
    /\ applied = <<>>
    /\ tasks = <<>>
    /\ decrypts = 0

\* projections.push(e): the synchronous handlers run to completion, the
\* kind-30078 handler runs up to its await
Push(e) ==
    /\ Len(applied) < MaxDispatch
    /\ applied' = Append(applied, e.id)
    /\ channels' = dispatch(channels, e)
    /\ IF e.kind = 30078 /\ decrypts30078(canSign, e)
       THEN /\ tasks' = Append(tasks, e.id)
            /\ decrypts' = decrypts + 1
       ELSE UNCHANGED <<tasks, decrypts>>
    /\ UNCHANGED <<subVars, canSign>>

\* decryptAsUser resolves and the suspended kind-30078 handler goes on
Resume(k) ==
    /\ k \in DOMAIN tasks
    /\ channels' = resume30078(channels, EventOf(tasks[k]))
    /\ tasks' = [j \in 1..(Len(tasks) - 1) |->
                    IF j < k THEN tasks[j] ELSE tasks[j + 1]]
    /\ UNCHANGED <<subVars, canSign, applied, decrypts>>

NextProj ==
    \/ \E e \in ProjEvents : Push(e)
    \/ \E k \in 1..MaxDispatch : Resume(k)

ProjSpec == InitProj /\ [][NextProj]_vars

(* ------------------------------ claims ---------------------------------- *)
Times(seq, id) == Cardinality({k \in DOMAIN seq : seq[k].id = id})

PushedBy(i) == SelectSeq(pushed, LAMBDA p : p.sub = i)

PushedTimes(i, id) == Cardinality({k \in DOMAIN pushed :
                                     pushed[k].sub = i /\ pushed[k].event.id = id})

Range(seq) == {seq[k] : k \in DOMAIN seq}

\* C1: within one Subscription an event id is verified, pushed to the
\* projections and emitted at most once, however often and from whichever
\* relays it is delivered.
C1_ProcessedAtMostOnce ==
    \A i \in DOMAIN subs : \A id \in Ids :
        /\ Cardinality({k \in DOMAIN subs[i].verified : subs[i].verified[k] = id}) <= 1
        /\ Times(subs[i].emitted, id) <= 1
        /\ PushedTimes(i, id) <= 1

\* an id delivered by two relays, attributed to both, processed once
C1_Witness ==
    \E i \in DOMAIN subs : \E id \in DOMAIN subs[i].seen :
        /\ Len(subs[i].seen[id]) = 2
        /\ Times(subs[i].emitted, id) = 1
        /\ PushedTimes(i, id) = 1

\* C2: an event whose signature verification fails or throws is never
\* pushed to the projections and never emitted.
C2_UnverifiedNeverPropagates ==
    /\ \A k \in DOMAIN pushed : pushed[k].event.sig = "valid"
    /\ \A i \in DOMAIN subs : \A e \in Range(subs[i].emitted) : e.sig = "valid"
    /\ \A i \in DOMAIN subs : \A e \in Range(subs[i].heard) : e.sig = "valid"

\* an event whose verification threw was dropped, and so was the copy of it
\* that a second relay delivered
C2_Witness ==
    \E i \in DOMAIN subs :
        \E w \in Range(subs[i].warned) :
            /\ w.msg = "Signature verification failed"
            /\ w.sig = "throws"
            /\ Len(subs[i].seen[w.id]) = 2
            /\ Times(subs[i].emitted, w.id) = 0
            /\ PushedTimes(i, w.id) = 0

\* the requested filters, read off the event's own fields
Satisfies(filters, e) ==
    \E k \in DOMAIN filters :
        /\ e.kind \in filters[k].kinds
        /\ filters[k].since = Undefined \/ e.created_at >= filters[k].since

\* C3: an event that does not satisfy the requested filters is never pushed
\* to the projections and never emitted, though it is recorded as seen.
C3_FilterFidelity ==
    /\ \A k \in DOMAIN pushed :
           Satisfies(subs[pushed[k].sub].opts.filters, pushed[k].event)
    /\ \A i \in DOMAIN subs : \A e \in Range(subs[i].emitted) :
           Satisfies(subs[i].opts.filters, e)

\* a genuine event outside the filters was received, seen and dropped
C3_Witness ==
    \E i \in DOMAIN subs : \E w \in Range(subs[i].warned) :
        /\ w.msg = "Event failed to match filter"
        /\ w.sig = "valid"
        /\ w.id \in DOMAIN subs[i].seen
        /\ Times(subs[i].emitted, w.id) = 0
        /\ PushedTimes(i, w.id) = 0

\* C4: with a timeout configured, once every queried relay (the endpoints
\* resolved at open) has signaled EOSE the subscription is closed.
C4_ClosedOnceAllEose ==
    \A i \in DOMAIN subs :
        (subs[i].opts.timeout # Undefined /\ subs[i].urls \subseteq subs[i].eose)
            => subs[i].closed # Null

\* C5: the completion value and the close notification carry the events
\* accepted before the close.
C5_ResultIsAccepted ==
    \A i \in DOMAIN subs :
        (subs[i].closed # Null /\ subs[i].late = 0)
            => /\ subs[i].result.value = subs[i].emitted
               /\ subs[i].closeEmits = <<subs[i].emitted>>

\* C6: a subscription opened with a timeout is eventually closed, whatever
\* the relays do.
C6_TimeoutCloses ==
    \A i \in 1..MaxEpochs :
        (i \in DOMAIN subs /\ subs[i].opts.timeout # Undefined)
            ~> (i \in DOMAIN subs /\ subs[i].closed # Null)

\* closed by the timer with no relay having answered
C6_Witness ==
    \E i \in DOMAIN subs :
        /\ subs[i].timer = "fired"
        /\ subs[i].eose = {}
        /\ subs[i].closed = subs[i].opened + subs[i].opts.timeout

\* C7: the closed-at timestamp is set once and never changes; a close()
\* after the first resolves nothing and notifies nobody.
C7_CloseIdempotent ==
    /\ [](\A i \in DOMAIN subs : /\ subs[i].resolves <= 1
                                  /\ Len(subs[i].closeEmits) <= 1)
    /\ [][\A i \in DOMAIN subs :
              subs[i].closed # Null =>
                  /\ subs'[i].closed = subs[i].closed
                  /\ subs'[i].result = subs[i].result
                  /\ subs'[i].resolves = subs[i].resolves
                  /\ subs'[i].closeEmits = subs[i].closeEmits]_vars

\* closed before the timer was due and at a later time the timer fired,
\* after every relay had also signaled EOSE
C7_Witness ==
    \E i \in DOMAIN subs :
        /\ subs[i].closed # Null
        /\ subs[i].closed < subs[i].opened + subs[i].opts.timeout
        /\ subs[i].timer = "fired"
        /\ clock > subs[i].closed

\* C8: unsubscribe() and cleanup() are each called exactly once on a closed
\* subscription and never on an open one.
C8_UnsubscribeOnce ==
    \A i \in DOMAIN subs :
        /\ subs[i].closed = Null => subs[i].unsubscribes = 0 /\ subs[i].cleanups = 0
        /\ subs[i].closed # Null => subs[i].unsubscribes = 1 /\ subs[i].cleanups = 1

\* closed by all-EOSE, then the timer fired too
C8_Witness ==
    \E i \in DOMAIN subs :
        /\ subs[i].timer = "fired"
        /\ Cardinality(subs[i].eose) = Len(subs[i].opts.relays)
        /\ subs[i].closed < subs[i].opened + subs[i].opts.timeout
        /\ subs[i].unsubscribes = 1
        /\ subs[i].cleanups = 1

\* C9: after close, a delivery reaches neither a listener nor the
\* projections.
C9_ClosedIsSilent ==
    [][\A i \in DOMAIN subs :
          subs[i].closed # Null =>
              /\ subs'[i].heard = subs[i].heard
              /\ PushedBy(i)' = PushedBy(i)]_vars

\* C10: every epoch after the first requests, in every filter, a `since` no
\* older than the preceding epoch's close time, and accepts no event older
\* than that.
C10_CursorAdvances ==
    \A i \in DOMAIN subs : i > 1 =>
        /\ subs[i - 1].closed # Null
        /\ \A k \in DOMAIN subs[i].requested :
               /\ subs[i].requested[k].since # Undefined
               /\ subs[i].requested[k].since >= subs[i - 1].closed
        /\ \A e \in Range(subs[i].emitted) : e.created_at >= subs[i - 1].closed

\* the second epoch was sent an event older than its cursor and dropped it
C10_Witness ==
    /\ Len(subs) >= 2
    /\ Len(subs[2].requested) = 2
    /\ \A k \in DOMAIN subs[2].requested : subs[2].requested[k].since > subs[1].closed
    /\ \E w \in Range(subs[2].warned) :
           w.msg = "Event failed to match filter" /\ Times(subs[2].emitted, w.id) = 0

\* C11: the epochs of subscribePersistent never overlap: at most one
\* subscription of the loop is open, and an epoch is opened only after the
\* one before it was closed and unsubscribed.
C11_NoOverlap ==
    /\ Cardinality({i \in DOMAIN subs : subs[i].closed = Null}) <= 1
    /\ \A i \in DOMAIN subs : i < Len(subs) =>
           /\ subs[i].closed # Null
           /\ subs[i].unsubscribes = 1
           /\ subs[i + 1].opened >= subs[i].closed

\* the second epoch is receiving events while the first is closed
C11_Witness ==
    /\ Len(subs) = 2
    /\ subs[1].closed # Null
    /\ subs[2].closed = Null
    /\ subs[2].emitted # <<>>
    /\ subs[1].emitted # <<>>

\* C12: opening with an empty relay set or an empty filter list fails at
\* open time: nothing is issued to the executor.
C12_FailFast ==
    \A i \in DOMAIN subs :
        (Len(subs[i].opts.relays) = 0 \/ Len(subs[i].opts.filters) = 0)
            => subs[i].sub # "handle"

\* C14: an accepted event is pushed to the projections unless shouldProject
\* is false, is emitted either way, and the push comes right before the
\* emission.
C14_ProjectByDefault ==
    \A i \in DOMAIN subs :
        LET c == subs[i].calls
            project == subs[i].opts.shouldProject # "false"
        IN /\ \A k \in DOMAIN c : c[k].op = "emit" =>
                  (project <=> (k > 1 /\ c[k - 1] = [op |-> "push", id |-> c[k].id]))
           /\ \A k \in DOMAIN c : c[k].op = "push" =>
                  (project /\ k < Len(c) /\ c[k + 1] = [op |-> "emit", id |-> c[k].id])
           /\ \A id \in Ids : Times(subs[i].emitted, id) = Times(SelectSeq(c, LAMBDA x : x.op = "emit"), id)
           /\ \A id \in Ids : PushedTimes(i, id) = Times(SelectSeq(c, LAMBDA x : x.op = "push"), id)

\* shouldProject left unset: two events accepted, each pushed then emitted
C14_Witness ==
    \E i \in DOMAIN subs :
        /\ subs[i].opts.shouldProject = "undefined"
        /\ Len(subs[i].calls) = 4
        /\ Len(PushedBy(i)) = 2

\* C16: seenIndex only grows: no id is removed, an attribution list only
\* gains relays at its end, holds each relay once and holds shareable relays
\* only.
C16_SeenOnlyGrows ==
    /\ [](\A i \in DOMAIN subs : \A id \in DOMAIN subs[i].seen :
             LET on == subs[i].seen[id]
             IN /\ \A k \in DOMAIN on : on[k] # "local"
                /\ \A k, l \in DOMAIN on : on[k] = on[l] => k = l)
    /\ [][\A i \in DOMAIN subs : \A id \in DOMAIN subs[i].seen :
              /\ id \in DOMAIN subs'[i].seen
              /\ Len(subs'[i].seen[id]) >= Len(subs[i].seen[id])
              /\ SubSeq(subs'[i].seen[id], 1, Len(subs[i].seen[id])) = subs[i].seen[id]]_vars

\* A delivered by r1 then r2, B seen as well
C16_Witness ==
    \E i \in DOMAIN subs :
        /\ DOMAIN subs[i].seen = {"A", "B"}
        /\ subs[i].seen["A"] = <<"r1", "r2">>
        /\ subs[i].seen["B"] # <<>>

\* C17: when an event failed signature verification and a relay then
\* delivers the genuine, filter-matching event of the same id to the open
\* subscription, the genuine event is emitted (and projected unless
\* shouldProject is false).
C17_ForgeryDoesNotBlock ==
    [][\A i \in DOMAIN subs : \A url \in RawUrls : \A e \in Events :
          (/\ OnEvent(i, url, e)
           /\ subs[i].closed = Null
           /\ \E w \in Range(subs[i].warned) :
                  w.id = e.id /\ w.msg = "Signature verification failed"
           /\ e.sig = "valid"
           /\ Satisfies(subs[i].opts.filters, e))
              => /\ Times(subs'[i].emitted, e.id) = 1
                 /\ shouldPush(subs[i]) => PushedTimes(i, e.id)' = 1]_vars

\* C18: a subscription opened without a timeout has no timer and is closed
\* by an explicit close() only; EOSE signals are recorded and notified.
C18_NoTimeoutNoAutoClose ==
    /\ [](\A i \in DOMAIN subs : subs[i].opts.timeout = Undefined =>
             /\ subs[i].timer = "none"
             /\ subs[i].closed = Null => subs[i].eoseHeard = subs[i].eose)
    /\ [][\A i \in DOMAIN subs :
              (subs[i].opts.timeout = Undefined /\ subs[i].closed = Null
                   /\ subs'[i].closed # Null)
                  => (subs' = [subs EXCEPT ![i] = close(@, DateNow)])]_vars

\* every queried relay has signaled EOSE and the subscription is still open
C18_Witness ==
    \E i \in DOMAIN subs :
        /\ subs[i].opts.timeout = Undefined
        /\ Cardinality(subs[i].eose) = Len(subs[i].opts.relays)
        /\ subs[i].eoseHeard = subs[i].eose
        /\ subs[i].closed = Null

\* the channel events dispatched so far
Dispatched == {EventOf(applied[k]) : k \in DOMAIN applied}

\* the channel messages dispatched so far for channel c
Messages42(c) == {e \in Dispatched : e.kind = 42 /\ e.e = c}

Max(S) == IF S = {} THEN 0 ELSE CHOOSE x \in S : \A y \in S : y <= x

\* C13: applying a kind 40, 41 or 42 event to the channels store twice gives
\* the store that applying it once gives, and the messages of a channel hold
\* each event id at most once.
C13_IdempotentMerge ==
    /\ \A e \in Channel40 \cup Channel41 \cup Channel42 :
           dispatch(dispatch(channels, e), e) = dispatch(channels, e)
    /\ \A c \in DOMAIN channels :
           \A k, j \in DOMAIN channels[c].messages :
               channels[c].messages[k] = channels[c].messages[j] => k = j

\* a channel message dispatched twice after the channel's creation, held once
C13_Witness ==
    /\ applied = <<"X", "m1", "m1">>
    /\ channels["X"].messages = <<"m1">>
    /\ channels["X"].meta = "chan"

\* C15: while canSign is false, a kind-30078 event pushed to the registry
\* calls decryptAsUser not once, suspends nothing, and leaves every channel
\* cell as it was.
C15_NoCapabilityNoOp ==
    [][\A e \in AppData :
          (Push(e) /\ ~canSign)
              => /\ decrypts' = 0
                 /\ tasks' = <<>>
                 /\ channels' = channels]_vars

\* both kinds of app data pushed without the capability, a channel in store
C15_Witness ==
    /\ ~canSign
    /\ applied = <<"X", "j1", "l1">>
    /\ "X" \in DOMAIN channels
    /\ ~channels["X"].joined
    /\ decrypts = 0

\* C19: whatever the order of the channel messages dispatched for a channel,
\* its cell holds exactly their ids, the union of their relays (while no
\* metadata event has set the relays), last_sent the greatest created_at of
\* the user's own messages and last_received the greatest of the others';
\* neither timestamp decreases in any step.
C19_OrderTolerant ==
    /\ [](\A c \in DOMAIN channels :
            LET M == Messages42(c)
            IN /\ Range(channels[c].messages) = {e.id : e \in M}
               /\ channels[c].updated_at = 0
                     => Range(channels[c].relays) =
                            UNION {Range(e.relays) : e \in M}
               /\ channels[c].last_sent =
                      Max({e.created_at : e \in {m \in M : m.pubkey \in pubkeys}})
               /\ channels[c].last_received =
                      Max({e.created_at : e \in {m \in M : m.pubkey \notin pubkeys}}))
    /\ [][\A c \in DOMAIN channels :
            /\ c \in DOMAIN channels'
            /\ channels'[c].last_sent >= channels[c].last_sent
            /\ channels'[c].last_received >= channels[c].last_received]_vars

\* the user's newest message dispatched before an older one, and a message
\* of somebody else
C19_Witness ==
    /\ \E k, j \in DOMAIN applied :
           k < j /\ applied[k] = "m3" /\ applied[j] = "m1"
    /\ "m2" \in Range(applied)
    /\ channels["X"].last_sent = 3
    /\ channels["X"].last_received = 2
    /\ Len(channels["X"].messages) = 3

\* a kind-41 event may change the cell of its channel: the channel is in the
\* store, its recorded owner is the event's author, the content has a name
Eligible41(ch, e) ==
    /\ e.e # ""
    /\ e.e \in DOMAIN ch
    /\ ch[e.e].owner = e.pubkey
    /\ metaName(e.content) # ""

\* C20: a kind-41 event that is not eligible leaves the store unchanged, and
\* an eligible one changes no cell but its channel's and creates none.
C20_OnlyOwnerUpdates ==
    \A e \in Channel41 :
        /\ ~Eligible41(channels, e) => handler41(channels, e) = channels
        /\ DOMAIN handler41(channels, e) = DOMAIN channels
        /\ \A c \in DOMAIN channels :
               c # e.e => handler41(channels, e)[c] = channels[c]

\* a stranger's update dropped, then the owner's own update taken
C20_Witness ==
    /\ applied = <<"X", "u2", "u1">>
    /\ channels["X"].meta = "renamed"
    /\ channels["X"].owner = "alice"


Count(seq, x) == Cardinality({k \in DOMAIN seq : seq[k] = x})

\* the kind-30078 events whose handler has gone on past its await
Resumed ==
    {e \in AppData : decrypts30078(canSign, e)
                        /\ Count(applied, e.id) > Count(tasks, e.id)}

\* the values the last-checked handlers that have completed read for
\* channel c and did not discard
CheckedValues(c) ==
    {v \in {lookup(e.plain.entries, c) :
                e \in {r \in Resumed : r.d = NIP28_LAST_CHECKED}} :
        v # NaN /\ v >= MinLastChecked}

\* C21: in whatever order the suspended last-checked handlers go on, the
\* last_checked of a channel is the greatest of the valid values the
\* completed handlers read for it (0, that is unset, when there is none),
\* is never set below 1577836800, and decreases in no step.
C21_LastCheckedMonotone ==
    /\ [](\A c \in DOMAIN channels :
            /\ channels[c].last_checked = Max(CheckedValues(c))
            /\ channels[c].last_checked = 0
                  \/ channels[c].last_checked >= MinLastChecked)
    /\ [][\A c \in DOMAIN channels :
            /\ c \in DOMAIN channels'
            /\ channels'[c].last_checked >= channels[c].last_checked]_vars

\* three last-checked handlers suspended together have all gone on, the
\* smaller payload dispatched first and last; the greater value is in place
C21_Witness ==
    /\ applied = <<"l1", "l2", "l1">>
    /\ decrypts = 3
    /\ tasks = <<>>
    /\ "X" \in DOMAIN channels
    /\ channels["X"].last_checked = MinLastChecked + 2


\* the payload with every key stripped of its legacy prefix
unprefixed(e) ==
    [e EXCEPT !.plain.entries =
        [j \in DOMAIN e.plain.entries |->
            <<last(split(e.plain.entries[j][1])), e.plain.entries[j][2]>>]]

\* C22: a last-checked handler going on after its decrypt leaves the store
\* as it would had every key of the payload been given without its legacy
\* prefix.
C22_LegacyKeys ==
    [][\A k \in 1..MaxDispatch :
          (Resume(k) /\ EventOf(tasks[k]).d = NIP28_LAST_CHECKED)
              => channels' =
                     resume30078(channels, unprefixed(EventOf(tasks[k])))]_vars

\* C23: when a rooms-joined handler goes on with an array, afterwards every
\* channel of the store is joined exactly when the array lists it, no cell
\* is created or removed and no other field changes; when it goes on with
\* anything else, or the decrypt fails, the store is unchanged and the
\* handler still completes.
C23_RoomsJoined ==
    [][\A k \in 1..MaxDispatch :
          (Resume(k) /\ EventOf(tasks[k]).d = NIP28_ROOMS_JOINED)
              => LET channelIds == EventOf(tasks[k]).plain
                 IN /\ Len(tasks') = Len(tasks) - 1
                    /\ IF channelIds.type = "array"
                       THEN /\ DOMAIN channels' = DOMAIN channels
                            /\ \A c \in DOMAIN channels :
                                 /\ channels'[c].joined <=> c \in channelIds.ids
                                 /\ [channels'[c] EXCEPT !.joined = FALSE] =
                                        [channels[c] EXCEPT !.joined = FALSE]
                       ELSE channels' = channels]_vars

\* a channel joined by one array and left again by the next
C23_Witness ==
    /\ applied = <<"X", "j1", "j4">>
    /\ tasks = <<>>
    /\ channels["X"].meta = "chan"
    /\ ~channels["X"].joined
    /\ canSign

====
